---- MODULE Spec2Model ----
(***************************************************************************)
(* warp-kit: the distortion-correction pipeline me_sdc                     *)
(* (src/warpkit/distortion.py) and the command-line workflow unwrap_phases *)
(* (src/warpkit/scripts/unwrap_phase.py), as state machines.               *)
(*                                                                         *)
(* A volume's geometry is a record [affine, shape] of two small integers:  *)
(* two affines are different integers exactly when they differ by more     *)
(* than numpy's allclose tolerance.  A field (field map, displacement map, *)
(* correction map) is a function over the grid 1..GridLen along the        *)
(* phase-encoding axis, its values in whole voxels.                        *)
(***************************************************************************)
EXTENDS Integers, Sequences, FiniteSets, TLC

(* ------------------------------ bounds --------------------------------- *)
\* longest phase / mag / TEs / metadata list
MaxEchoes == 2
\* voxels along the phase-encoding axis
GridLen == 3
\* iteration cap of the displacement-field inverter
MaxIter == 3
\* most entries along the last axis of an image file
MaxFrames == 2

VARIABLES
    \* me_sdc: the arguments
    phase, mag, TEs, effective_echo_spacing, phase_encoding_direction,
    up_to_frame,
    \* me_sdc: position, locals, outcome
    pc, field_maps, displacement_maps, correction_maps, result, error,
    \* the inverter's loop state: iterate, iteration count, warnings reported
    inv_prev, inv_c, inv_n, warnings,
    \* history: the stages entered, in order, each with the arguments it got;
    \* what each stage returned; what a stage raised
    calls, returned, raised,
    \* unwrap_phases: the arguments
    magnitude, phase_paths, metadata, noiseframes, debug,
    \* unwrap_phases: position, locals, outcome
    u_pc, mag_data, phase_data, echo_times, total_readout_time,
    u_phase_encoding_direction, u_error, saved,
    \* what the files read so far hold: entries along the last axis and number
    \* of dimensions of the images, the dictionaries of the sidecars
    disk_frames, disk_ndim, sidecars,
    \* history: unwrap_phase_data and medic as called, each with its arguments
    u_calls

sdcVars == <<phase, mag, TEs, effective_echo_spacing, phase_encoding_direction,
             up_to_frame, pc, field_maps, displacement_maps, correction_maps, result, error,
             inv_prev, inv_c, inv_n, warnings, calls, returned, raised>>

unwrapVars == <<magnitude, phase_paths, metadata, noiseframes, debug,
                u_pc, mag_data, phase_data, echo_times, total_readout_time,
                u_phase_encoding_direction, u_error, saved,
                disk_frames, disk_ndim, sidecars, u_calls>>

vars == <<sdcVars, unwrapVars>>

(* ------------------------------ helpers -------------------------------- *)
Min(a, b) == IF a <= b THEN a ELSE b

Abs(a) == IF a < 0 THEN -a ELSE a

Range(s) == {s[i] : i \in DOMAIN s}

SeqsUpTo(S, n) == UNION {[1..k -> S] : k \in 0..n}

\* Python's None for a field-valued local
None == << >>

(* ------------------------------ inputs --------------------------------- *)
\* reference geometry, one differing in the affine, one differing in the shape
Geoms == {[affine |-> 0, shape |-> 0],
          [affine |-> 1, shape |-> 0],
          [affine |-> 0, shape |-> 1]}

TEVals == {1, 2}

EchoSpacings == {-1, 0, 1}

\* the tokens the docstring of me_sdc allows
PhaseEncodingDirections ==
    {"i", "j", "k", "i-", "j-", "k-", "x", "y", "z", "x-", "y-", "z-"}

\* up_to_frame: 0 stands for None
UpToFrames == {0, 1}

\* the phase_encoding_direction arguments tried: a valid one of each
\* polarity and spelling, and one that is no token
PedInputs == {"j", "x-", "q"}

\* what the field map provider may return: zero, constant, alternating
FieldMaps == {[x \in 1..GridLen |-> 0],
              [x \in 1..GridLen |-> 1],
              [x \in 1..GridLen |-> IF x = 1 THEN 2 ELSE IF x = 2 THEN -2 ELSE 0]}

(* ------------------------- me_sdc: geometry check ---------------------- *)
\* np.allclose on two affines
AllClose(a, b) == a = b

\* zip(phase, mag): the index set of the pairs it yields
ZipIndices(p, m) == 1..Min(Len(p), Len(m))

\* the body of the nested loop: TRUE when no pair raises
GeometryMatches(p, m) ==
    \A i \in ZipIndices(p, m) : \A j \in ZipIndices(p, m) :
        /\ AllClose(p[i].affine, p[j].affine)
        /\ AllClose(m[i].affine, m[j].affine)
        /\ p[i].shape = p[j].shape
        /\ m[i].shape = m[j].shape

(* --------------- the stages me_sdc calls (warpkit.unwrap, ------------- *)
(* --------------- warpkit.utilities; not in src/)          ------------- *)
\* the sign a phase-encoding token gives the displacement
Polarity(ped) == IF ped \in {"i-", "j-", "k-", "x-", "y-", "z-"} THEN -1 ELSE 1

\* field_maps_to_displacement_maps: its precondition ...
BuilderAccepts(ees, ped) == ees > 0 /\ ped \in PhaseEncodingDirections

\* ... and its result: Hz * echo spacing * voxel extent (the unit), signed
FieldMapsToDisplacementMaps(fm, ees, ped) ==
    [x \in DOMAIN fm |-> Polarity(ped) * fm[x] * ees]

\* convergence tolerance of the inverter, in voxels
Tol == 1

\* coordinates outside the volume clamp to the nearest valid voxel
Clamp(x) == IF x < 1 THEN 1 ELSE IF x > GridLen THEN GridLen ELSE x

\* one fixed-point step: c_{n+1}(x) = -d(x + c_n(x))
InvertStep(d, c) == [x \in DOMAIN d |-> -d[Clamp(x + c[x])]]

\* the maximum absolute change between two iterates
MaxAbsChange(c1, c2) ==
    CHOOSE v \in {Abs(c1[x] - c2[x]) : x \in DOMAIN c1} :
        \A w \in {Abs(c1[x] - c2[x]) : x \in DOMAIN c1} : w <= v

(* ------------------------------ me_sdc --------------------------------- *)
InitSdc ==
    /\ phase \in SeqsUpTo(Geoms, MaxEchoes)
    /\ mag \in SeqsUpTo(Geoms, MaxEchoes)
    /\ TEs \in SeqsUpTo(TEVals, MaxEchoes)
    /\ effective_echo_spacing \in EchoSpacings
    /\ phase_encoding_direction \in PedInputs
    /\ up_to_frame \in UpToFrames
    /\ pc = "validate"
    /\ field_maps = None
    /\ displacement_maps = None
    /\ correction_maps = None
    /\ result = None
    /\ error = "None"
    /\ inv_prev = None
    /\ inv_c = None
    /\ inv_n = 0
    /\ warnings = {}
    /\ calls = << >>
    /\ returned = << >>
    /\ raised = << >>

args == <<phase, mag, TEs, effective_echo_spacing, phase_encoding_direction,
          up_to_frame>>

\* Raise, were me_sdc to hand back what it has computed so far
RaiseWithPartialOutput(e) ==
    /\ error' = e
    /\ pc' = "done"
    /\ result' = <<field_maps, correction_maps>>

\* an uncaught exception: me_sdc ends with it and returns nothing
Raise(e) ==
    /\ error' = e
    /\ pc' = "done"
    /\ UNCHANGED result

\* lines 41-50: the geometry check
Validate ==
    /\ pc = "validate"
    /\ calls' = Append(calls, [stage |-> "validate", args |-> <<phase, mag>>])
    /\ IF GeometryMatches(phase, mag)
       THEN pc' = "provider" /\ UNCHANGED <<error, result, raised>>
       ELSE /\ raised' = Append(raised, [stage |-> "validate", error |-> "ValueError"])
            /\ Raise("ValueError")
    /\ UNCHANGED <<args, field_maps, displacement_maps, correction_maps,
                   inv_prev, inv_c, inv_n, warnings, returned>>
    /\ UNCHANGED unwrapVars

\* line 53: unwrap_and_compute_field_maps returns field maps, or raises
CallProvider ==
    /\ pc = "provider"
    /\ calls' = Append(calls, [stage |-> "unwrap_and_compute_field_maps",
                               args |-> <<phase, mag, TEs, up_to_frame>>])
    /\ \/ \E fm \in FieldMaps :
             /\ returned' = Append(returned,
                    [stage |-> "unwrap_and_compute_field_maps", value |-> fm])
             /\ field_maps' = fm
             /\ pc' = "builder"
             /\ UNCHANGED <<error, result, raised>>
       \/ /\ raised' = Append(raised, [stage |-> "unwrap_and_compute_field_maps",
                                        error |-> "ProviderError"])
          /\ Raise("ProviderError")
          /\ UNCHANGED <<field_maps, returned>>
    /\ UNCHANGED <<args, displacement_maps, correction_maps, inv_prev, inv_c, inv_n,
                   warnings>>
    /\ UNCHANGED unwrapVars

\* line 56: field_maps_to_displacement_maps
CallBuilder ==
    /\ pc = "builder"
    /\ calls' = Append(calls, [stage |-> "field_maps_to_displacement_maps",
                               args |-> <<field_maps, effective_echo_spacing,
                                          phase_encoding_direction>>])
    /\ IF BuilderAccepts(effective_echo_spacing, phase_encoding_direction)
       THEN LET d == FieldMapsToDisplacementMaps(
                         field_maps, effective_echo_spacing, phase_encoding_direction)
            IN /\ returned' = Append(returned,
                      [stage |-> "field_maps_to_displacement_maps", value |-> d])
               /\ displacement_maps' = d
               /\ pc' = "inverter"
               /\ UNCHANGED <<error, result, raised>>
       ELSE /\ raised' = Append(raised, [stage |-> "field_maps_to_displacement_maps",
                                          error |-> "InvalidParameter"])
            /\ Raise("InvalidParameter")
            /\ UNCHANGED <<displacement_maps, returned>>
    /\ UNCHANGED <<args, field_maps, correction_maps, inv_prev, inv_c, inv_n, warnings>>
    /\ UNCHANGED unwrapVars

\* line 59: invert_displacement_maps is entered: c_0 = -d, or it raises
CallInverter ==
    /\ pc = "inverter"
    /\ calls' = Append(calls, [stage |-> "invert_displacement_maps",
                               args |-> <<displacement_maps,
                                          phase_encoding_direction, TRUE>>])
    /\ \/ /\ inv_c' = [x \in DOMAIN displacement_maps |-> -displacement_maps[x]]
          /\ inv_n' = 0
          /\ pc' = "iterate"
          /\ UNCHANGED <<error, result, raised>>
       \/ /\ raised' = Append(raised, [stage |-> "invert_displacement_maps",
                                        error |-> "InverterError"])
          /\ Raise("InverterError")
          /\ UNCHANGED <<inv_c, inv_n>>
    /\ UNCHANGED <<args, field_maps, displacement_maps, correction_maps, inv_prev,
                   warnings, returned>>
    /\ UNCHANGED unwrapVars

\* line 59, inside the inverter: one pass of the fixed-point loop; it leaves
\* the loop on convergence or at the cap, the cap with a ConvergenceWarning
InvertIterate ==
    /\ pc = "iterate"
    /\ LET next == InvertStep(displacement_maps, inv_c)
           converged == MaxAbsChange(next, inv_c) < Tol
       IN /\ inv_prev' = inv_c
          /\ inv_c' = next
          /\ inv_n' = inv_n + 1
          /\ IF converged \/ inv_n + 1 >= MaxIter
             THEN /\ returned' = Append(returned,
                        [stage |-> "invert_displacement_maps", value |-> next])
                  /\ correction_maps' = next
                  /\ pc' = "return"
             ELSE /\ UNCHANGED <<correction_maps, returned>>
                  /\ pc' = "iterate"
          /\ warnings' = IF ~converged /\ inv_n + 1 >= MaxIter
                         THEN warnings \cup {"ConvergenceWarning"}
                         ELSE warnings
    /\ UNCHANGED <<args, field_maps, displacement_maps, result, error, calls, raised>>
    /\ UNCHANGED unwrapVars

\* Return, were the two volumes returned in the other order
ReturnSwapped ==
    /\ pc = "return"
    /\ result' = <<correction_maps, field_maps>>
    /\ pc' = "done"
    /\ UNCHANGED <<args, field_maps, displacement_maps, correction_maps, error,
                   inv_prev, inv_c, inv_n, warnings, calls, returned, raised>>
    /\ UNCHANGED unwrapVars

\* Return, were a reported ConvergenceWarning turned into a failure
ReturnFailsOnWarning ==
    /\ pc = "return"
    /\ IF warnings = {}
       THEN result' = <<field_maps, correction_maps>> /\ UNCHANGED error
       ELSE error' = "ConvergenceWarning" /\ UNCHANGED result
    /\ pc' = "done"
    /\ UNCHANGED <<args, field_maps, displacement_maps, correction_maps,
                   inv_prev, inv_c, inv_n, warnings, calls, returned, raised>>
    /\ UNCHANGED unwrapVars

\* line 62
Return ==
    /\ pc = "return"
    /\ result' = <<field_maps, correction_maps>>
    /\ pc' = "done"
    /\ UNCHANGED <<args, field_maps, displacement_maps, correction_maps, error,
                   inv_prev, inv_c, inv_n, warnings, calls, returned, raised>>
    /\ UNCHANGED unwrapVars

NextSdc ==
    \/ Validate
    \/ CallProvider
    \/ CallBuilder
    \/ CallInverter
    \/ InvertIterate
    \/ Return

\* unwrap_phases not running
IdleUnwrap ==
    /\ magnitude = << >>
    /\ phase_paths = << >>
    /\ metadata = << >>
    /\ noiseframes = 0
    /\ debug = FALSE
    /\ u_pc = "idle"
    /\ mag_data = << >>
    /\ phase_data = << >>
    /\ echo_times = << >>
    /\ total_readout_time = None
    /\ u_phase_encoding_direction = None
    /\ u_error = "None"
    /\ saved = {}
    /\ disk_frames = 0
    /\ disk_ndim = 0
    /\ sidecars = << >>
    /\ u_calls = << >>

\* me_sdc, called on its own
Init == InitSdc /\ IdleUnwrap

Spec == Init /\ [][NextSdc]_vars

\* me_sdc is straight-line code on one thread: while it has a step to take,
\* it takes it
FairSpec == Spec /\ WF_vars(NextSdc)

(* ---------------------------- unwrap_phases ---------------------------- *)
(* The file uses names it does not bind (np, frames, unwrap_phase_data; it  *)
(* imports medic from warpkit.distortion) and, at line 134, reads .shape of *)
(* phase[0].  The statements are modelled as they read, with those names    *)
(* taken as bound elsewhere in the package and phase[0] as the first phase  *)
(* image.  n_cpus, out_prefix and wrap_limit are passed through untouched   *)
(* and are left out.                                                       *)
(* An image is [file, ndim, frames]: the path it was loaded from, its      *)
(* number of dimensions, and the entries it holds along its last axis,     *)
(* each entry named by its place in the file.                              *)

Some(v) == <<v>>

Path(kind, i) == [kind |-> kind, index |-> i]

Paths(kind, n) == [i \in 1..n |-> Path(kind, i)]

\* how many dimensions an image file may have
NDims == {3, 4, 5}

\* the EchoTime values of the sidecars, in seconds
EchoTimeVals == {1, 2, 3}

\* what a sidecar may hold: each field present or not
Sidecars ==
    [EchoTime : {None} \cup {Some(t) : t \in EchoTimeVals},
     TotalReadoutTime : {Some(5)},
     PhaseEncodingDirection : {None, Some("j")}]
    \cup
    [EchoTime : {None} \cup {Some(t) : t \in EchoTimeVals},
     TotalReadoutTime : {None},
     PhaseEncodingDirection : {Some("j")}]

\* nib.load
Load(path, ndim, n) == [file |-> path, ndim |-> ndim, frames |-> [f \in 1..n |-> f]]

\* img.slicer[..., : -n], were it to slice noise frames off the front
DropLeading(img, n) ==
    [img EXCEPT !.frames = SubSeq(img.frames, n + 1, Len(img.frames))]

\* line 130, 131: img.slicer[..., : -n] for n > 0
DropTrailing(img, n) ==
    [img EXCEPT !.frames = SubSeq(img.frames, 1, Len(img.frames) - n)]

\* line 156: seconds to milliseconds
ToMilliseconds(t) == t * 1000

\* zip(echo_times, mag_data, phase_data)
Zip3(et, md, pd) ==
    [i \in 1..Min(Len(et), Min(Len(md), Len(pd))) |->
        [te |-> et[i], mag |-> md[i], phase |-> pd[i]]]

\* sorted() compares two tuples of equal echo time by their images, which
\* have no order: TypeError
HasTie(triples) ==
    \E i \in DOMAIN triples : \E j \in DOMAIN triples :
        i # j /\ triples[i].te = triples[j].te

\* the place of a triple in a sorted sequence of triples
RECURSIVE Insert(_, _)
Insert(t, sorted) ==
    IF sorted = << >> THEN <<t>>
    ELSE IF t.te < Head(sorted).te THEN <<t>> \o sorted
    ELSE <<Head(sorted)>> \o Insert(t, Tail(sorted))

\* sorted(), were only the echo times put in order
SortTimesOnly(triples) ==
    LET RECURSIVE Whole(_)
        Whole(ts) == IF ts = << >> THEN << >> ELSE Insert(Head(ts), Whole(Tail(ts)))
        w == Whole(triples)
    IN [i \in DOMAIN triples |-> [triples[i] EXCEPT !.te = w[i].te]]

\* line 169: sorted(zip(...)) on triples of distinct echo times
RECURSIVE Sorted(_)
Sorted(triples) ==
    IF triples = << >> THEN << >>
    ELSE Insert(Head(triples), Sorted(Tail(triples)))

InitUnwrap ==
    /\ \E n \in 1..MaxEchoes : magnitude = Paths("magnitude", n)
    /\ \E n \in 1..MaxEchoes : phase_paths = Paths("phase", n)
    /\ \E n \in 1..MaxEchoes : metadata = Paths("metadata", n)
    /\ noiseframes \in -1..MaxFrames
    /\ debug \in BOOLEAN
    /\ u_pc = "load"
    /\ mag_data = << >>
    /\ phase_data = << >>
    /\ echo_times = << >>
    /\ total_readout_time = None
    /\ u_phase_encoding_direction = None
    /\ u_error = "None"
    /\ saved = {}
    /\ disk_frames = 0
    /\ disk_ndim = 0
    /\ sidecars = << >>
    /\ u_calls = << >>

uargs == <<magnitude, phase_paths, metadata, noiseframes, debug>>

\* an uncaught exception ends unwrap_phases
URaise(e) ==
    /\ u_error' = e
    /\ u_pc' = "done"

\* lines 123-125: the images are read
LoadData ==
    /\ u_pc = "load"
    /\ \E n \in 1..MaxFrames : \E d \in NDims :
        /\ disk_frames' = n
        /\ disk_ndim' = d
        /\ mag_data' = [i \in DOMAIN magnitude |-> Load(magnitude[i], d, n)]
        /\ phase_data' = [i \in DOMAIN phase_paths |-> Load(phase_paths[i], d, n)]
    /\ u_pc' = "noise"
    /\ UNCHANGED <<uargs, echo_times, total_readout_time, u_phase_encoding_direction,
                   u_error, saved, sidecars, u_calls>>
    /\ UNCHANGED sdcVars

\* lines 127-131: the noise frames are cut off; nibabel's slicer raises
\* IndexError on a slice that leaves nothing
RemoveNoiseFrames ==
    /\ u_pc = "noise"
    /\ IF noiseframes > 0
       THEN IF noiseframes >= disk_frames
            THEN /\ URaise("IndexError")
                 /\ UNCHANGED <<mag_data, phase_data>>
            ELSE /\ mag_data' =
                       [i \in DOMAIN mag_data |-> DropTrailing(mag_data[i], noiseframes)]
                 /\ phase_data' =
                       [i \in DOMAIN phase_data |-> DropTrailing(phase_data[i], noiseframes)]
                 /\ u_pc' = "dims"
                 /\ UNCHANGED u_error
       ELSE /\ u_pc' = "dims"
            /\ UNCHANGED <<mag_data, phase_data, u_error>>
    /\ UNCHANGED <<uargs, echo_times, total_readout_time, u_phase_encoding_direction,
                   saved, disk_frames, disk_ndim, sidecars, u_calls>>
    /\ UNCHANGED sdcVars

\* lines 133-147: 3D or 4D data passes (what the block assigns is not read
\* again), anything else raises
CheckDims ==
    /\ u_pc = "dims"
    /\ IF phase_data[1].ndim \in {3, 4}
       THEN u_pc' = "metadata" /\ UNCHANGED u_error
       ELSE URaise("ValueError: Data must be 3D or 4D.")
    /\ UNCHANGED <<uargs, mag_data, phase_data, echo_times, total_readout_time,
                   u_phase_encoding_direction, saved, disk_frames, disk_ndim,
                   sidecars, u_calls>>
    /\ UNCHANGED sdcVars

\* lines 149-166: the sidecars are read in order; one without EchoTime raises
\* KeyError; TotalReadoutTime and PhaseEncodingDirection are taken from the
\* first one and must be there
ReadMetadata ==
    /\ u_pc = "metadata"
    /\ \E dicts \in [DOMAIN metadata -> Sidecars] :
        /\ sidecars' = dicts
        /\ IF \E i \in DOMAIN dicts : dicts[i].EchoTime = None
           THEN /\ URaise("KeyError: EchoTime")
                /\ UNCHANGED <<echo_times, total_readout_time,
                               u_phase_encoding_direction>>
           ELSE /\ echo_times' =
                      [i \in DOMAIN dicts |-> ToMilliseconds(dicts[i].EchoTime[1])]
                /\ total_readout_time' = dicts[1].TotalReadoutTime
                /\ u_phase_encoding_direction' = dicts[1].PhaseEncodingDirection
                /\ IF dicts[1].TotalReadoutTime = None
                   THEN URaise("ValueError: TotalReadoutTime")
                   ELSE IF dicts[1].PhaseEncodingDirection = None
                   THEN URaise("ValueError: PhaseEncodingDirection")
                   ELSE u_pc' = "sort" /\ UNCHANGED u_error
    /\ UNCHANGED <<uargs, mag_data, phase_data, saved, disk_frames, disk_ndim, u_calls>>
    /\ UNCHANGED sdcVars

\* lines 168-169: the echoes are sorted by echo time
SortEchoes ==
    /\ u_pc = "sort"
    /\ LET triples == Zip3(echo_times, mag_data, phase_data)
       IN IF HasTie(triples)
          THEN /\ URaise("TypeError")
               /\ UNCHANGED <<echo_times, mag_data, phase_data>>
          ELSE LET s == Sorted(triples)
               IN /\ echo_times' = [i \in DOMAIN s |-> s[i].te]
                  /\ mag_data' = [i \in DOMAIN s |-> s[i].mag]
                  /\ phase_data' = [i \in DOMAIN s |-> s[i].phase]
                  /\ u_pc' = "unwrap"
                  /\ UNCHANGED u_error
    /\ UNCHANGED <<uargs, total_readout_time, u_phase_encoding_direction, saved,
                   disk_frames, disk_ndim, sidecars, u_calls>>
    /\ UNCHANGED sdcVars

\* lines 171-182: the unwrapping step is handed the sorted series
CallUnwrapPhaseData ==
    /\ u_pc = "unwrap"
    /\ u_calls' = Append(u_calls,
            [stage |-> "unwrap_phase_data",
             phase |-> phase_data, mag |-> mag_data, TEs |-> echo_times,
             total_readout_time |-> total_readout_time,
             phase_encoding_direction |-> u_phase_encoding_direction,
             options |-> << >>])
    /\ \/ u_pc' = "medic" /\ UNCHANGED u_error
       \/ URaise("UnwrapError")
    /\ UNCHANGED <<uargs, mag_data, phase_data, echo_times, total_readout_time,
                   u_phase_encoding_direction, saved, disk_frames, disk_ndim, sidecars>>
    /\ UNCHANGED sdcVars

\* lines 183-207: medic, with the filters the debug flag selects
CallMedic ==
    /\ u_pc = "medic"
    /\ u_calls' = Append(u_calls,
            [stage |-> "medic",
             phase |-> phase_data, mag |-> mag_data, TEs |-> echo_times,
             total_readout_time |-> total_readout_time,
             phase_encoding_direction |-> u_phase_encoding_direction,
             options |-> IF debug
                         THEN <<"border_filt=(1000, 1000)", "svd_filt=1000", "debug=True">>
                         ELSE <<"svd_filt=10", "border_size=5">>])
    /\ \/ u_pc' = "save" /\ UNCHANGED u_error
       \/ URaise("MedicError")
    /\ UNCHANGED <<uargs, mag_data, phase_data, echo_times, total_readout_time,
                   u_phase_encoding_direction, saved, disk_frames, disk_ndim, sidecars>>
    /\ UNCHANGED sdcVars

\* lines 209-214: the three volumes are written
Save ==
    /\ u_pc = "save"
    /\ saved' = {"fieldmaps_native.nii", "displacementmaps.nii", "fieldmaps.nii"}
    /\ u_pc' = "done"
    /\ UNCHANGED <<uargs, mag_data, phase_data, echo_times, total_readout_time,
                   u_phase_encoding_direction, u_error, disk_frames, disk_ndim,
                   sidecars, u_calls>>
    /\ UNCHANGED sdcVars

NextUnwrap ==
    \/ LoadData
    \/ RemoveNoiseFrames
    \/ CheckDims
    \/ ReadMetadata
    \/ SortEchoes
    \/ CallUnwrapPhaseData
    \/ CallMedic
    \/ Save

\* me_sdc not running
IdleSdc ==
    /\ phase = << >>
    /\ mag = << >>
    /\ TEs = << >>
    /\ effective_echo_spacing = 0
    /\ phase_encoding_direction = "None"
    /\ up_to_frame = 0
    /\ pc = "idle"
    /\ field_maps = None
    /\ displacement_maps = None
    /\ correction_maps = None
    /\ result = None
    /\ error = "None"
    /\ inv_prev = None
    /\ inv_c = None
    /\ inv_n = 0
    /\ warnings = {}
    /\ calls = << >>
    /\ returned = << >>
    /\ raised = << >>

\* unwrap_phases, run from the command line
InitUnwrapAlone == InitUnwrap /\ IdleSdc

SpecUnwrap == InitUnwrapAlone /\ [][NextUnwrap]_vars

(* ------------------------- me_sdc: the claims -------------------------- *)
Stages(log) == [i \in DOMAIN log |-> log[i].stage]

ProviderCalled ==
    \E i \in DOMAIN calls : calls[i].stage = "unwrap_and_compute_field_maps"

GeometryDiffers(u, v) == ~AllClose(u.affine, v.affine) \/ u.shape # v.shape

SameLengths == Len(phase) = Len(mag) /\ Len(mag) = Len(TEs)

DistinctTEs == \A i \in DOMAIN TEs : \A j \in DOMAIN TEs : TEs[i] = TEs[j] => i = j

OneGeometry ==
    \A u \in Range(phase) \cup Range(mag) :
        \A v \in Range(phase) \cup Range(mag) : ~GeometryDiffers(u, v)

ValidParameters ==
    /\ effective_echo_spacing > 0
    /\ phase_encoding_direction \in PhaseEncodingDirections

\* C1: once the geometry check has run (here on lists of one length, one
\* volume at least), it has raised its error if and only if some two volumes
\* of the combined set (phase and magnitude volumes together) differ in
\* affine or in shape.
C1_CheckRaisesIffSomePairDiffers ==
    (pc # "validate" /\ SameLengths /\ Len(phase) >= 1) =>
        (error = "ValueError" <=>
            \E u \in Range(phase) \cup Range(mag) :
                \E v \in Range(phase) \cup Range(mag) : GeometryDiffers(u, v))

\* C2: when phase, mag and TEs are not all of one length (the arguments being
\* valid otherwise), the field map provider is never called and a run that
\* has ended returned nothing and ended with an error.
C2_LengthMismatchRejectedBeforeProvider ==
    (/\ ~SameLengths
     /\ Len(phase) >= 1 /\ Len(mag) >= 1 /\ Len(TEs) >= 1
     /\ DistinctTEs /\ ValidParameters) =>
        /\ ~ProviderCalled
        /\ pc = "done" => (error # "None" /\ result = None)

\* C3: with effective_echo_spacing <= 0 or a phase_encoding_direction that is
\* no token (the arguments being valid otherwise), the field map provider is
\* never called.
C3_InvalidParameterBeforeNumericalWork ==
    (~ValidParameters /\ SameLengths /\ Len(phase) >= 1 /\ OneGeometry /\ DistinctTEs)
    => ~ProviderCalled

\* C4: a successful run entered validation, field-map estimation,
\* displacement-map construction and inversion once each, in this order; the
\* builder got the provider's field maps, the inverter the builder's
\* displacement maps and the same phase_encoding_direction; the result is
\* (the provider's field maps, the inverter's correction maps).
C4_StagesOnceInOrder ==
    (pc = "done" /\ error = "None") =>
        /\ Stages(calls) = <<"validate", "unwrap_and_compute_field_maps",
                             "field_maps_to_displacement_maps",
                             "invert_displacement_maps">>
        /\ Stages(returned) = <<"unwrap_and_compute_field_maps",
                                "field_maps_to_displacement_maps",
                                "invert_displacement_maps">>
        /\ calls[3].args = <<returned[1].value, effective_echo_spacing,
                             phase_encoding_direction>>
        /\ calls[4].args = <<returned[2].value, phase_encoding_direction, TRUE>>
        /\ result = <<returned[1].value, returned[3].value>>

\* a successful run on a field map that is not zero, so that the field maps
\* and the correction maps differ
C4_Witness ==
    /\ pc = "done"
    /\ error = "None"
    /\ Len(returned) = 3
    /\ returned[1].value # returned[3].value
    /\ result # None

\* C5: once a stage has raised, me_sdc has ended with that very error, the
\* stage that raised is the last one entered, no stage was entered twice and
\* nothing is returned; and me_sdc ends with an error only if a stage raised.
C5_FailurePropagatesUnchanged ==
    /\ raised # << >> =>
        /\ Len(raised) = 1
        /\ pc = "done"
        /\ error = raised[1].error
        /\ result = None
        /\ calls[Len(calls)].stage = raised[1].stage
        /\ \A i \in DOMAIN calls : \A j \in DOMAIN calls :
               calls[i].stage = calls[j].stage => i = j
    /\ error # "None" => raised # << >>

\* the displacement builder raised, after the provider had returned field maps
C5_Witness ==
    /\ raised # << >>
    /\ raised[1].stage = "field_maps_to_displacement_maps"
    /\ field_maps # None
    /\ pc = "done"

\* C7 (me_sdc): when TEs holds a value twice (the arguments being valid
\* otherwise), the field map provider is never called.
C7_RepeatedEchoTimeRejectedBeforeProvider ==
    (~DistinctTEs /\ SameLengths /\ OneGeometry /\ ValidParameters)
    => ~ProviderCalled

\* the inverter's loop makes at most MaxIter passes and can always make the
\* next one; it is left only on convergence or at the cap; the correction
\* map is the last iterate; at the cap without convergence a
\* ConvergenceWarning is reported, no error is raised and me_sdc returns both
\* volumes
InversionStopsAndDegrades ==
    /\ inv_n <= MaxIter
    /\ pc = "iterate" => (inv_n < MaxIter /\ ENABLED InvertIterate)
    /\ pc = "return" => ENABLED Return
    /\ (pc \in {"return", "done"} /\ correction_maps # None) =>
        /\ MaxAbsChange(inv_c, inv_prev) < Tol \/ inv_n = MaxIter
        /\ correction_maps = inv_c
        /\ MaxAbsChange(inv_c, inv_prev) >= Tol =>
            /\ "ConvergenceWarning" \in warnings
            /\ error = "None"
            /\ pc = "done" => result = <<field_maps, inv_c>>

\* C8: every run of me_sdc ends, so the inversion it invokes terminates; its
\* loop stops on convergence or at the iteration cap, and at the cap without
\* convergence the run is not aborted: the last iterate is the correction
\* map, a ConvergenceWarning is reported and me_sdc returns both volumes.
C8_InversionTerminatesAndDegrades ==
    []InversionStopsAndDegrades /\ <>(pc = "done")

\* the cap was reached without convergence and me_sdc has returned
C8_Witness ==
    /\ pc = "done"
    /\ inv_n = MaxIter
    /\ MaxAbsChange(inv_c, inv_prev) >= Tol
    /\ "ConvergenceWarning" \in warnings
    /\ result = <<field_maps, inv_c>>

(* ---------------------- unwrap_phases: the claims ---------------------- *)
\* the echoes: the places at which all three lists have an entry
NEchoes == Min(Len(magnitude), Min(Len(phase_paths), Len(metadata)))

C9_MissingFieldRejectedAtAnyPlace ==
    LET lacksTRT == \E i \in DOMAIN sidecars : sidecars[i].TotalReadoutTime = None
        lacksPED == \E i \in DOMAIN sidecars : sidecars[i].PhaseEncodingDirection = None
    IN (/\ sidecars # << >>
        /\ \A i \in DOMAIN sidecars : sidecars[i].EchoTime # None
        /\ \A i \in DOMAIN sidecars : \A j \in DOMAIN sidecars :
               sidecars[i].EchoTime = sidecars[j].EchoTime => i = j
        /\ lacksTRT \/ lacksPED)
       => /\ u_calls = << >>
          /\ u_pc = "done" =>
                \/ lacksTRT /\ u_error = "ValueError: TotalReadoutTime"
                \/ lacksPED /\ u_error = "ValueError: PhaseEncodingDirection"

\* the entries an image holds once the noise frames are off: the first
\* F - N of its F for N > 0, all F otherwise
KeptFrames ==
    IF noiseframes > 0
    THEN [f \in 1..(disk_frames - noiseframes) |-> f]
    ELSE [f \in 1..disk_frames |-> f]

====
